---------------------------- MODULE Spec2Model ----------------------------
(***************************************************************************)
(* The per-frame simulation core of the asteroids game in                  *)
(* src/source/main.cpp: the ship tree (Ship / PlayerShip), the asteroid    *)
(* and projectile lists and the frame loop of Application::Run.            *)
(*                                                                         *)
(* Representation of the C++ floats.  Time is counted in ticks of 1/198 s  *)
(* (198 = lcm of the two fire rates, so both firing intervals are whole    *)
(* numbers of ticks) and lengths in units of 1/18 pixel.  Wherever a speed  *)
(* is multiplied by dt, frame times are drawn from multiples of 11 ticks,  *)
(* for which every such product of the program is a whole number of length *)
(* units: the arithmetic of the model is exact on the inputs it            *)
(* enumerates.  Velocities are kept in pixels per second, as in the source.*)
(***************************************************************************)
EXTENDS Integers, Sequences, FiniteSets, TLC

VARIABLES
    player,         \* Application::Run: std::unique_ptr<PlayerShip> player (the ship tree)
    nextId,         \* identity of the next Ship object constructed (object identity)
    asteroids,      \* Application::asteroids
    projectiles,    \* Application::projectiles
    spawnTimer,     \* Run: float spawnTimer
    spawnInterval,  \* Run: float spawnInterval
    currentWeapon,  \* Run: WeaponType currentWeapon
    currentShape,   \* Application::currentShape
    shotTimer,      \* Run: float shotTimer
    dt,             \* Run: float dt of the current frame
    allShips,       \* Run: std::vector<Ship*> allShips of the current frame
    pc,             \* position inside the body of the frame loop
    frame,          \* number of completed frames
    presses,        \* number of key presses (R, TAB, shape keys) so far
    shotLog,        \* history: what each activation of ShootAll did in this frame
    hitLog,         \* history: the asteroids the projectile pass of this frame destroyed
    contactLog,     \* history: what the ship pass of this frame did with each asteroid
    call            \* history: the last method called on a ship from outside the loop

vars == <<player, nextId, asteroids, projectiles, spawnTimer, spawnInterval,
          currentWeapon, currentShape, shotTimer, dt, allShips, pc, frame,
          presses, shotLog, hitLog, contactLog, call>>

-----------------------------------------------------------------------------
(* Units *)

TicksPerSec == 198
SubPx == 18

\* v pixels per second during d ticks, in length units (Vector2Scale(velocity, dt))
Scale(v, d) == (v * d * SubPx) \div TicksPerSec

Px(n) == n * SubPx

Abs(x) == IF x < 0 THEN -x ELSE x

Sq(x) == x * x

\* Vector2Distance(a, b) < r, for r >= 0, without leaving 32-bit integers
Within(a, b, r) ==
    /\ Abs(a[1] - b[1]) < r
    /\ Abs(a[2] - b[2]) < r
    /\ Sq(a[1] - b[1]) + Sq(a[2] - b[2]) < Sq(r)

\* Vector2Distance(a, p) < Vector2Distance(b, p)
Closer(a, b, p) ==
    Sq(a[1] - p[1]) - Sq(b[1] - p[1]) < Sq(b[2] - p[2]) - Sq(a[2] - p[2])

-----------------------------------------------------------------------------
(* Program constants *)

C_WIDTH == 1600
C_HEIGHT == 1600
MAX_AST == 150
\* 0.5 s and 3.0 s, in ticks
C_SPAWN_MIN == 99
C_SPAWN_MAX == 594
SCORE_THRESHOLD == 3

ShipHP == 100
ShipSpeed == 250
fireRateLaser == 18
fireRateBullet == 22
spacingLaser == 40
spacingBullet == 20
OrbitGap == 60
AsteroidUnitRadius == 16
SPEED_MIN == 125
SPEED_MAX == 250
LaserDamage == 20
BulletDamage == 10
LaserRadius == 2
BulletRadius == 5

\* texture.width of the ship texture in pixels (the image spaceship1.png is loaded
\* at run time and is no part of the sources: 200 is the width taken here), and
\* the two draw scales in thousandths (0.3f for the root, 0.18f for an orbiter)
TextureWidth == 200
RootScale == 300
OrbiterScale == 180

-----------------------------------------------------------------------------
(* cosf / sinf.  An angle is a whole number of ticks (1 rad/s during one   *)
(* tick, so 198 units per radian); the value is in thousandths, computed   *)
(* by Bhaskara's rational approximation of the sine on a half turn.        *)

HalfTurn == 622

SinHalf(x) == (16000 * x * (HalfTurn - x)) \div (5 * HalfTurn * HalfTurn - 4 * x * (HalfTurn - x))

SinM(a) ==
    LET r == a % (2 * HalfTurn)
    IN  IF r <= HalfTurn THEN SinHalf(r) ELSE -SinHalf(r - HalfTurn)

CosM(a) == SinM(a + HalfTurn \div 2)

-----------------------------------------------------------------------------
(* Ship and PlayerShip *)

\* Ship::Ship + PlayerShip::PlayerShip: a ship at the screen centre
NewShip(id, sc) ==
    [uid |-> id, pos |-> <<Px(C_WIDTH) \div 2, Px(C_HEIGHT) \div 2>>,
     hp |-> ShipHP, alive |-> TRUE, score |-> 0,
     parent |-> 0, orbitRadius |-> 0, orbitAngle |-> 0,
     scale |-> sc, orbiters |-> <<>>]

\* PlayerShip::GetRadius: (texture.width * scale) * 0.5
GetRadius(s) == (Px(TextureWidth) * s.scale) \div 2000

GetFireRate(wt) == IF wt = "LASER" THEN fireRateLaser ELSE fireRateBullet

GetSpacing(wt) == IF wt = "LASER" THEN spacingLaser ELSE spacingBullet

\* a TakeDamage without the early return for a dead ship
TakeDamageUnguarded(s, dmg) ==
    [s EXCEPT !.hp = s.hp - dmg, !.alive = IF s.hp - dmg <= 0 THEN FALSE ELSE s.alive]

\* a TakeDamage that lets a ship live on with no hit points left
TakeDamageLate(s, dmg) ==
    IF ~s.alive THEN s
    ELSE LET h == s.hp - dmg
         IN  [s EXCEPT !.hp = h, !.alive = IF h < 0 THEN FALSE ELSE s.alive]

\* Ship::TakeDamage
TakeDamage(s, dmg) ==
    IF ~s.alive THEN s
    ELSE LET h == s.hp - dmg
         IN  [s EXCEPT !.hp = h, !.alive = IF h <= 0 THEN FALSE ELSE s.alive]

\* Ship::AddScore
AddScore(s, n) == [s EXCEPT !.score = s.score + n]

\* a SetParent that takes its last two arguments in the other order
SetParentSwapped(s, p, radius, angle) ==
    [s EXCEPT !.parent = p, !.orbitRadius = angle, !.orbitAngle = radius]

\* Ship::SetParent
SetParent(s, p, radius, angle) ==
    [s EXCEPT !.parent = p, !.orbitRadius = radius, !.orbitAngle = angle]

\* Ship::UpdateOrbit, parentPos being parent->GetPosition()
UpdateOrbit(s, parentPos, d) ==
    IF s.parent # 0
    THEN LET a == s.orbitAngle + d
         IN  [s EXCEPT !.orbitAngle = a,
                       !.pos = <<parentPos[1] + (s.orbitRadius * CosM(a)) \div 1000,
                                 parentPos[2] + (s.orbitRadius * SinM(a)) \div 1000>>]
    ELSE s

\* PlayerShip::Update; keys is the set of movement keys held down
ShipUpdate(s, d, keys) ==
    IF s.parent = 0
    THEN IF s.alive
         THEN LET dy == (IF "S" \in keys THEN Scale(ShipSpeed, d) ELSE 0)
                        - (IF "W" \in keys THEN Scale(ShipSpeed, d) ELSE 0)
                  dx == (IF "D" \in keys THEN Scale(ShipSpeed, d) ELSE 0)
                        - (IF "A" \in keys THEN Scale(ShipSpeed, d) ELSE 0)
              IN  [s EXCEPT !.pos = <<s.pos[1] + dx, s.pos[2] + dy>>]
         ELSE [s EXCEPT !.pos = <<s.pos[1], s.pos[2] + Scale(ShipSpeed, d)>>]
    ELSE s

\* a prune that removes nothing
KeepAll(orbs) == orbs

\* std::remove_if(..., !orb->IsAlive()) + erase
PruneDead(orbs) == SelectSeq(orbs, LAMBDA o : o.alive)

RECURSIVE UpdateOrbiters(_, _, _)
\* Ship::UpdateOrbiters
UpdateOrbiters(s, d, keys) ==
    LET upd(o) == UpdateOrbiters(ShipUpdate(UpdateOrbit(o, s.pos, d), d, keys), d, keys)
        moved == [i \in 1..Len(s.orbiters) |-> upd(s.orbiters[i])]
    IN  [s EXCEPT !.orbiters = PruneDead(moved)]

RECURSIVE GetAllShips(_)
RECURSIVE GetAllShipsSeq(_)
\* the ships of a tree in the order of Ship::GetAllShips (self, then each orbiter's subtree)
GetAllShipsSeq(orbs) ==
    IF orbs = <<>> THEN <<>> ELSE GetAllShips(Head(orbs)) \o GetAllShipsSeq(Tail(orbs))

GetAllShips(s) == <<s>> \o GetAllShipsSeq(s.orbiters)

\* the Ship* values pushed by GetAllShips
ShipPtrs(s) == LET l == GetAllShips(s) IN [i \in 1..Len(l) |-> l[i].uid]

RECURSIVE DamageShip(_, _, _)
\* the tree after s->TakeDamage(dmg) on the ship a pointer id designates
DamageShip(s, id, dmg) ==
    IF s.uid = id THEN TakeDamage(s, dmg)
    ELSE [s EXCEPT !.orbiters = [i \in 1..Len(s.orbiters) |-> DamageShip(s.orbiters[i], id, dmg)]]

RECURSIVE ScoreShip(_, _, _)
\* the tree after s->AddScore(n) on the ship a pointer id designates
ScoreShip(s, id, n) ==
    IF s.uid = id THEN AddScore(s, n)
    ELSE [s EXCEPT !.orbiters = [i \in 1..Len(s.orbiters) |-> ScoreShip(s.orbiters[i], id, n)]]

\* the ship a pointer designates
Deref(root, id) ==
    LET l == GetAllShips(root)
    IN  l[CHOOSE i \in 1..Len(l) : l[i].uid = id]

-----------------------------------------------------------------------------
(* Projectile *)

\* MakeProjectile for a ship facing up (rotation 0): dir = (sin 0, -cos 0)
MakeProjectile(wt, pos, speed) ==
    [pos |-> pos, vel |-> <<0, -speed>>,
     dmg |-> IF wt = "LASER" THEN LaserDamage ELSE BulletDamage, type |-> wt]

ProjectileRadius(p) == IF p.type = "BULLET" THEN Px(BulletRadius) ELSE Px(LaserRadius)

\* Vector2Add(position, Vector2Scale(velocity, dt))
Advance(pos, vel, d) == <<pos[1] + Scale(vel[1], d), pos[2] + Scale(vel[2], d)>>

\* Projectile::Update: the projectile moved
ProjectileMoved(p, d) == [p EXCEPT !.pos = Advance(p.pos, p.vel, d)]

\* Projectile::Update: its result, TRUE for an expired projectile
ProjectileExpired(p) ==
    \/ p.pos[1] < 0
    \/ p.pos[1] > Px(C_WIDTH)
    \/ p.pos[2] < 0
    \/ p.pos[2] > Px(C_HEIGHT)

-----------------------------------------------------------------------------
(* Ship::ShootAll *)

\* 1.f / GetFireRate(currentWeapon), in ticks
Interval(wt) == TicksPerSec \div GetFireRate(wt)

\* the muzzle of a ship facing up: position + (0, -radius)
Muzzle(s) == <<s.pos[1], s.pos[2] - GetRadius(s)>>

\* a firing step with an if in place of the while: one projectile at most
ShootOnce(s, projs, wt, timer) ==
    IF timer >= Interval(wt)
    THEN [projs |-> Append(projs, MakeProjectile(wt, Muzzle(s), GetSpacing(wt) * GetFireRate(wt))),
          timer |-> timer - Interval(wt)]
    ELSE [projs |-> projs, timer |-> timer]

RECURSIVE ShootLoop(_, _, _, _)
\* the while loop of ShootAll: one projectile per whole interval in the timer
ShootLoop(s, projs, wt, timer) ==
    IF timer >= Interval(wt)
    THEN ShootLoop(s,
                   Append(projs, MakeProjectile(wt, Muzzle(s), GetSpacing(wt) * GetFireRate(wt))),
                   wt, timer - Interval(wt))
    ELSE [projs |-> projs, timer |-> timer]

RECURSIVE ShootAll(_, _, _, _, _, _)
RECURSIVE ShootAllSeq(_, _, _, _, _, _)
RECURSIVE ShootByValue(_, _, _, _, _, _)
\* a loop over the orbiters that hands each of them a copy of the timer
ShootByValue(orbs, projs, wt, timer, d, log) ==
    IF orbs = <<>> THEN [projs |-> projs, timer |-> timer, log |-> log]
    ELSE LET r == ShootAll(Head(orbs), projs, wt, timer, d, log)
         IN  ShootByValue(Tail(orbs), r.projs, wt, timer, d, r.log)

\* the for loop of ShootAll over the orbiters, with the same timer reference
ShootAllSeq(orbs, projs, wt, timer, d, log) ==
    IF orbs = <<>> THEN [projs |-> projs, timer |-> timer, log |-> log]
    ELSE LET r == ShootAll(Head(orbs), projs, wt, timer, d, log)
         IN  ShootAllSeq(Tail(orbs), r.projs, wt, r.timer, d, r.log)

\* a ShootAll without the test that sends a dead ship back at once
ShootAllRegardless(s, projs, wt, timer, d, log) ==
    LET r == ShootLoop(s, projs, wt, timer + d)
    IN  ShootAllSeq(s.orbiters, r.projs, wt, r.timer, d,
                    Append(log, [uid |-> s.uid, alive |-> s.alive, before |-> timer,
                                 after |-> r.timer, n |-> Len(r.projs) - Len(projs)]))

\* Ship::ShootAll; log gets one entry per activation: the ship, whether it was
\* alive, the timer it found and left, and the number of projectiles it emitted
ShootAll(s, projs, wt, timer, d, log) ==
    IF ~s.alive
    THEN [projs |-> projs, timer |-> timer,
          log |-> Append(log, [uid |-> s.uid, alive |-> FALSE, before |-> timer,
                               after |-> timer, n |-> 0])]
    ELSE LET r == ShootLoop(s, projs, wt, timer + d)
         IN  ShootAllSeq(s.orbiters, r.projs, wt, r.timer, d,
                         Append(log, [uid |-> s.uid, alive |-> TRUE, before |-> timer,
                                      after |-> r.timer, n |-> Len(r.projs) - Len(projs)]))

-----------------------------------------------------------------------------
(* Ship::TrySpawnOrbiter *)

\* a TrySpawnOrbiter without the test for an orbiter already there
SpawnRegardless(s, id, threshold) ==
    IF s.score >= threshold
    THEN [ship |-> [s EXCEPT !.orbiters = Append(s.orbiters,
                        SetParent(NewShip(id, OrbiterScale), s.uid,
                                  GetRadius(s) + Px(OrbitGap), 0))],
          next |-> id + 1]
    ELSE [ship |-> s, next |-> id]

RECURSIVE TrySpawnOrbiter(_, _, _)
RECURSIVE TrySpawnSeq(_, _, _)
\* the for loop of TrySpawnOrbiter over the orbiters; id is the next object identity
TrySpawnSeq(orbs, id, threshold) ==
    IF orbs = <<>> THEN [orbs |-> <<>>, next |-> id]
    ELSE LET h == TrySpawnOrbiter(Head(orbs), id, threshold)
             t == TrySpawnSeq(Tail(orbs), h.next, threshold)
         IN  [orbs |-> <<h.ship>> \o t.orbs, next |-> t.next]

\* a TrySpawnOrbiter that gives an orbiter to ships that are alive only
SpawnIfAlive(s, id, threshold) ==
    LET spawn == s.alive /\ s.score >= threshold /\ s.orbiters = <<>>
        orb == SetParent(NewShip(id, OrbiterScale), s.uid, GetRadius(s) + Px(OrbitGap), 0)
        orbs == IF spawn THEN Append(s.orbiters, orb) ELSE s.orbiters
        r == TrySpawnSeq(orbs, IF spawn THEN id + 1 ELSE id, threshold)
    IN  [ship |-> [s EXCEPT !.orbiters = r.orbs], next |-> r.next]

\* Ship::TrySpawnOrbiter: the ship afterwards and the next object identity
TrySpawnOrbiter(s, id, threshold) ==
    LET spawn == s.score >= threshold /\ s.orbiters = <<>>
        orb == SetParent(NewShip(id, OrbiterScale), s.uid, GetRadius(s) + Px(OrbitGap), 0)
        orbs == IF spawn THEN Append(s.orbiters, orb) ELSE s.orbiters
        r == TrySpawnSeq(orbs, IF spawn THEN id + 1 ELSE id, threshold)
    IN  [ship |-> [s EXCEPT !.orbiters = r.orbs], next |-> r.next]

-----------------------------------------------------------------------------
(* Asteroid *)

\* Asteroid::GetRadius
AsteroidRadius(a) == Px(AsteroidUnitRadius * a.size)

\* a GetDamage that leaves the size out
DamageOfShape(a) == a.baseDamage

\* Asteroid::GetDamage
AsteroidDamage(a) == a.baseDamage * a.size

\* the baseDamage the constructor of each subclass sets
BaseDamage(shape) ==
    CASE shape = "TRIANGLE" -> 5
      [] shape = "SQUARE" -> 10
      [] shape = "PENTAGON" -> 15

\* Asteroid::Update: the asteroid moved
AsteroidMoved(a, d) == [a EXCEPT !.pos = Advance(a.pos, a.vel, d)]

\* an off-screen test without the margin of one radius, as Projectile::Update has it
ActiveOnScreen(a) ==
    ~ \/ a.pos[1] < 0
      \/ a.pos[1] > Px(C_WIDTH)
      \/ a.pos[2] < 0
      \/ a.pos[2] > Px(C_HEIGHT)

\* Asteroid::Update: its result, TRUE for an asteroid still active
AsteroidActive(a) ==
    ~ \/ a.pos[1] < -AsteroidRadius(a)
      \/ a.pos[1] > Px(C_WIDTH) + AsteroidRadius(a)
      \/ a.pos[2] < -AsteroidRadius(a)
      \/ a.pos[2] > Px(C_HEIGHT) + AsteroidRadius(a)

RECURSIVE RootSearch(_, _, _)
\* the largest n in lo..hi with n * n <= q
RootSearch(q, lo, hi) ==
    IF lo = hi THEN lo
    ELSE LET mid == (lo + hi + 1) \div 2
         IN  IF mid * mid <= q THEN RootSearch(q, mid, hi) ELSE RootSearch(q, lo, mid - 1)

\* sqrtf of a perfect square, 0 for a number that is none
ExactRoot(q) ==
    LET n == RootSearch(q, 0, 4000)
    IN  IF n * n = q THEN n ELSE 0

\* the position Asteroid::init gives an asteroid of radius r (pixels) on an edge,
\* along being the RandomFloat drawn along that edge (pixels)
EdgePosition(edge, along, r) ==
    CASE edge = 0 -> <<along, -r>>
      [] edge = 1 -> <<C_WIDTH + r, along>>
      [] edge = 2 -> <<along, C_HEIGHT + r>>
      [] OTHER -> <<-r, along>>

\* fminf(screenW, screenH) * 0.1f
MaxOff == (IF C_WIDTH < C_HEIGHT THEN C_WIDTH ELSE C_HEIGHT) \div 10

\* the points (pixels) Asteroid::init can aim at: the centre plus an offset of
\* length at most maxOff
IsTarget(c) == Sq(c[1] - C_WIDTH \div 2) + Sq(c[2] - C_HEIGHT \div 2) <= Sq(MaxOff)

\* Asteroid::init followed by the subclass constructor, for the random draws
\* size, edge, along, center and speed; defined where the normalised direction
\* times the speed is a whole number of pixels per second
CanInit(size, edge, along, center, speed) ==
    LET r == AsteroidUnitRadius * size
        p == EdgePosition(edge, along, r)
        n == ExactRoot(Sq(center[1] - p[1]) + Sq(center[2] - p[2]))
    IN  /\ n > 0
        /\ ((center[1] - p[1]) * speed) % n = 0
        /\ ((center[2] - p[2]) * speed) % n = 0

NewAsteroid(shape, size, edge, along, center, speed) ==
    LET r == AsteroidUnitRadius * size
        p == EdgePosition(edge, along, r)
        n == ExactRoot(Sq(center[1] - p[1]) + Sq(center[2] - p[2]))
    IN  [pos |-> <<Px(p[1]), Px(p[2])>>,
         vel |-> <<((center[1] - p[1]) * speed) \div n, ((center[2] - p[2]) * speed) \div n>>,
         size |-> size, shape |-> shape, baseDamage |-> BaseDamage(shape)]

\* MakeAsteroid: the class constructed for a shape; rnd is GetRandomValue(0, 2)
MakeShape(shape, rnd) ==
    CASE shape = "TRIANGLE" -> "TRIANGLE"
      [] shape = "SQUARE" -> "SQUARE"
      [] shape = "PENTAGON" -> "PENTAGON"
      [] OTHER -> CASE rnd = 0 -> "TRIANGLE" [] rnd = 1 -> "SQUARE" [] OTHER -> "PENTAGON"

-----------------------------------------------------------------------------
(* Application::Run: the collision passes *)

RemoveAt(seq, i) == SubSeq(seq, 1, i - 1) \o SubSeq(seq, i + 1, Len(seq))

RECURSIVE ClosestAliveLoop(_, _, _, _, _)
\* a search for the closest ship that passes over the dead ones
ClosestAliveLoop(root, ptrs, i, best, p) ==
    IF i > Len(ptrs) THEN best
    ELSE IF /\ Deref(root, ptrs[i]).alive
            /\ \/ best = 0
               \/ Closer(Deref(root, ptrs[i]).pos, Deref(root, best).pos, p)
         THEN ClosestAliveLoop(root, ptrs, i + 1, ptrs[i], p)
         ELSE ClosestAliveLoop(root, ptrs, i + 1, best, p)

RECURSIVE ClosestLoop(_, _, _, _, _)
\* the loop over allShips that finds the ship closest to a point; best = 0 is
\* closest = nullptr with minDist = 1e9f, which every distance of the game is below
ClosestLoop(root, ptrs, i, best, p) ==
    IF i > Len(ptrs) THEN best
    ELSE IF best = 0 \/ Closer(Deref(root, ptrs[i]).pos, Deref(root, best).pos, p)
         THEN ClosestLoop(root, ptrs, i + 1, ptrs[i], p)
         ELSE ClosestLoop(root, ptrs, i + 1, best, p)

Closest(root, ptrs, p) == ClosestLoop(root, ptrs, 1, 0, p)

\* the collision test of a projectile and an asteroid
ProjectileHits(p, a) == Within(p.pos, a.pos, ProjectileRadius(p) + AsteroidRadius(a))

\* the index of the last asteroid in range of p, 0 for none
LastHit(p, asts) ==
    IF \E j \in 1..Len(asts) : ProjectileHits(p, asts[j])
    THEN CHOOSE j \in 1..Len(asts) :
            /\ ProjectileHits(p, asts[j])
            /\ \A k \in (j + 1)..Len(asts) : ~ProjectileHits(p, asts[k])
    ELSE 0

\* the index of the first asteroid the inner loop finds in range of p, 0 for none
FirstHit(p, asts) ==
    IF \E j \in 1..Len(asts) : ProjectileHits(p, asts[j])
    THEN CHOOSE j \in 1..Len(asts) :
            /\ ProjectileHits(p, asts[j])
            /\ \A k \in 1..(j - 1) : ~ProjectileHits(p, asts[k])
    ELSE 0

RECURSIVE ProjectileLoop(_, _, _, _, _, _)
\* the outer loop over the projectiles, pit standing at index i; log gets one
\* entry per hit: the projectile, the asteroid list it was tested against, the
\* index in it of the asteroid destroyed, that asteroid and the ship credited
ProjectileLoop(root, ptrs, projs, i, asts, log) ==
    IF i > Len(projs) THEN [root |-> root, projs |-> projs, asts |-> asts, log |-> log]
    ELSE LET j == FirstHit(projs[i], asts)
         IN  IF j = 0 THEN ProjectileLoop(root, ptrs, projs, i + 1, asts, log)
             ELSE LET c == Closest(root, ptrs, projs[i].pos)
                  IN  ProjectileLoop(IF c # 0 THEN ScoreShip(root, c, 1) ELSE root,
                                     ptrs, RemoveAt(projs, i), i, RemoveAt(asts, j),
                                     Append(log, [proj |-> projs[i], before |-> asts,
                                                  at |-> j, ast |-> asts[j],
                                                  credited |-> c]))

\* the collision test of a ship and an asteroid
ShipHits(s, a) == Within(s.pos, a.pos, GetRadius(s) + AsteroidRadius(a))

\* the first ship of allShips in range, alive or not, 0 for none
FirstInRange(root, ptrs, a) ==
    IF \E i \in 1..Len(ptrs) : ShipHits(Deref(root, ptrs[i]), a)
    THEN ptrs[CHOOSE i \in 1..Len(ptrs) :
            /\ ShipHits(Deref(root, ptrs[i]), a)
            /\ \A k \in 1..(i - 1) : ~ShipHits(Deref(root, ptrs[k]), a)]
    ELSE 0

\* the first ship of allShips the lambda finds alive and in range, 0 for none
FirstVictim(root, ptrs, a) ==
    IF \E i \in 1..Len(ptrs) : Deref(root, ptrs[i]).alive /\ ShipHits(Deref(root, ptrs[i]), a)
    THEN ptrs[CHOOSE i \in 1..Len(ptrs) :
            /\ Deref(root, ptrs[i]).alive /\ ShipHits(Deref(root, ptrs[i]), a)
            /\ \A k \in 1..(i - 1) :
                  ~(Deref(root, ptrs[k]).alive /\ ShipHits(Deref(root, ptrs[k]), a))]
    ELSE 0

RECURSIVE AdvanceThenTest(_, _, _, _, _, _, _)
\* a ship pass that advances every asteroid first and tests it where it then is
AdvanceThenTest(root, ptrs, asts, i, d, kept, log) ==
    IF i > Len(asts) THEN [root |-> root, asts |-> kept, log |-> log]
    ELSE LET m == AsteroidMoved(asts[i], d)
             v == FirstVictim(root, ptrs, m)
         IN  IF v # 0
             THEN AdvanceThenTest(DamageShip(root, v, AsteroidDamage(m)), ptrs, asts, i + 1, d,
                                  kept, Append(log, [ast |-> asts[i], root |-> root,
                                                     victim |-> v, removed |-> TRUE]))
             ELSE AdvanceThenTest(root, ptrs, asts, i + 1, d,
                                  IF AsteroidActive(m) THEN Append(kept, m) ELSE kept,
                                  Append(log, [ast |-> asts[i], root |-> root, victim |-> 0,
                                               removed |-> ~AsteroidActive(m)]))

RECURSIVE ContactLoop(_, _, _, _, _, _, _)
\* std::remove_if over the asteroids with the lambda remove_collision, and the
\* erase; log gets one entry per asteroid: the asteroid, the ship tree the lambda
\* found, the ship damaged (0 for none) and whether the asteroid was removed
ContactLoop(root, ptrs, asts, i, d, kept, log) ==
    IF i > Len(asts) THEN [root |-> root, asts |-> kept, log |-> log]
    ELSE LET a == asts[i]
             v == FirstVictim(root, ptrs, a)
             m == AsteroidMoved(a, d)
         IN  IF v # 0
             THEN ContactLoop(DamageShip(root, v, AsteroidDamage(a)), ptrs, asts, i + 1, d, kept,
                              Append(log, [ast |-> a, root |-> root, victim |-> v,
                                           removed |-> TRUE]))
             ELSE IF ~AsteroidActive(m)
                  THEN ContactLoop(root, ptrs, asts, i + 1, d, kept,
                                   Append(log, [ast |-> a, root |-> root, victim |-> 0,
                                           removed |-> TRUE]))
                  ELSE ContactLoop(root, ptrs, asts, i + 1, d, Append(kept, m),
                                   Append(log, [ast |-> a, root |-> root, victim |-> 0,
                                           removed |-> FALSE]))

-----------------------------------------------------------------------------
(* Bounds and the inputs enumerated *)

MaxFrames == 2
MaxProjectiles == 4
MaxPresses == 1

\* GetFrameTime(), in ticks: frames of 1/18 s and of 1/9 s
DtSet == {11, 22}

\* the sets of movement keys held down (the rotation keys Q and E are never held)
KeySets == {{}, {"W"}}

\* the sets of shape keys pressed in one frame
ShapeKeySets == {{}, {"FOUR"}}

\* Utils::RandomFloat(C_SPAWN_MIN, C_SPAWN_MAX)
SpawnIntervals == {C_SPAWN_MIN, C_SPAWN_MAX}

\* the random draws of Asteroid::init
Sizes == {1, 2, 4}
Edges == 0..3
AlongSet == {C_WIDTH \div 2}
CenterSet == {<<C_WIDTH \div 2, C_HEIGHT \div 2>>}
SpeedSet == {SPEED_MAX}

-----------------------------------------------------------------------------
(* Application::Run: one action per step of the body of the frame loop *)

NoLog == <<>>

\* no method called from outside the loop
NoCall == [op |-> "none", uid |-> 0, arg |-> 0, before |-> <<>>]

\* dt = GetFrameTime(); spawnTimer += dt; player->Update(dt); player->UpdateOrbiters(dt)
Update ==
    /\ pc = "update"
    /\ frame < MaxFrames
    /\ \E d \in DtSet, keys \in KeySets :
          /\ dt' = d
          /\ spawnTimer' = spawnTimer + d
          /\ player' = UpdateOrbiters(ShipUpdate(player, d, keys), d, keys)
    /\ pc' = "restart"
    /\ UNCHANGED <<nextId, asteroids, projectiles, spawnInterval, currentWeapon,
                   currentShape, shotTimer, allShips, frame, presses, shotLog, hitLog,
                   contactLog, call>>

\* a restart that does not ask whether the root is dead
RestartAnytime ==
    /\ pc = "restart"
    /\ \E r \in BOOLEAN :
          /\ r => presses < MaxPresses
          /\ presses' = IF r THEN presses + 1 ELSE presses
          /\ IF r
             THEN /\ player' = NewShip(nextId, RootScale)
                  /\ nextId' = nextId + 1
                  /\ asteroids' = <<>>
                  /\ projectiles' = <<>>
                  /\ spawnTimer' = 0
                  /\ spawnInterval' \in SpawnIntervals
             ELSE UNCHANGED <<player, nextId, asteroids, projectiles, spawnTimer, spawnInterval>>
    /\ pc' = "select"
    /\ UNCHANGED <<currentWeapon, currentShape, shotTimer, dt, allShips, frame, shotLog,
                   hitLog, contactLog, call>>

\* a restart that revives the dead root where it is
ReviveInPlace ==
    /\ pc = "restart"
    /\ \E r \in BOOLEAN :
          /\ r => presses < MaxPresses
          /\ presses' = IF r THEN presses + 1 ELSE presses
          /\ IF ~player.alive /\ r
             THEN /\ player' = [player EXCEPT !.hp = ShipHP, !.alive = TRUE]
                  /\ asteroids' = <<>>
                  /\ projectiles' = <<>>
                  /\ spawnTimer' = 0
                  /\ spawnInterval' \in SpawnIntervals
                  /\ UNCHANGED nextId
             ELSE UNCHANGED <<player, nextId, asteroids, projectiles, spawnTimer, spawnInterval>>
    /\ pc' = "select"
    /\ UNCHANGED <<currentWeapon, currentShape, shotTimer, dt, allShips, frame, shotLog,
                   hitLog, contactLog, call>>

\* if (!player->IsAlive() && IsKeyPressed(KEY_R)) { ... }
Restart ==
    /\ pc = "restart"
    /\ \E r \in BOOLEAN :
          /\ r => presses < MaxPresses
          /\ presses' = IF r THEN presses + 1 ELSE presses
          /\ IF ~player.alive /\ r
             THEN /\ player' = NewShip(nextId, RootScale)
                  /\ nextId' = nextId + 1
                  /\ asteroids' = <<>>
                  /\ projectiles' = <<>>
                  /\ spawnTimer' = 0
                  /\ spawnInterval' \in SpawnIntervals
             ELSE UNCHANGED <<player, nextId, asteroids, projectiles, spawnTimer, spawnInterval>>
    /\ pc' = "select"
    /\ UNCHANGED <<currentWeapon, currentShape, shotTimer, dt, allShips, frame, shotLog,
                   hitLog, contactLog, call>>

\* the four if (IsKeyPressed(KEY_ONE..KEY_FOUR)) in their order
ShapeAfter(shape, pressed) ==
    LET s1 == IF "ONE" \in pressed THEN "TRIANGLE" ELSE shape
        s2 == IF "TWO" \in pressed THEN "SQUARE" ELSE s1
        s3 == IF "THREE" \in pressed THEN "PENTAGON" ELSE s2
    IN  IF "FOUR" \in pressed THEN "RANDOM" ELSE s3

\* (currentWeapon + 1) % COUNT
NextWeapon(wt) == IF wt = "LASER" THEN "BULLET" ELSE "LASER"

\* the shape keys and the weapon key
Select ==
    /\ pc = "select"
    /\ \E pressed \in ShapeKeySets, tab \in BOOLEAN :
          /\ presses + Cardinality(pressed) + (IF tab THEN 1 ELSE 0) <= MaxPresses
          /\ presses' = presses + Cardinality(pressed) + (IF tab THEN 1 ELSE 0)
          /\ currentShape' = ShapeAfter(currentShape, pressed)
          /\ currentWeapon' = IF tab THEN NextWeapon(currentWeapon) ELSE currentWeapon
    /\ pc' = "fire"
    /\ UNCHANGED <<player, nextId, asteroids, projectiles, spawnTimer, spawnInterval,
                   shotTimer, dt, allShips, frame, shotLog, hitLog, contactLog, call>>

\* an else branch of the firing step that leaves the timer as it is
KeepTimer(timer, wt) == timer

\* the else branch of the firing step: fmodf once the timer is above the interval
ClampTimer(timer, wt) == IF timer > Interval(wt) THEN timer % Interval(wt) ELSE timer

\* if (player->IsAlive() && IsKeyDown(KEY_SPACE)) ShootAll(...) else { clamp }
Fire ==
    /\ pc = "fire"
    /\ \E space \in BOOLEAN :
          IF player.alive /\ space
          THEN LET r == ShootAll(player, projectiles, currentWeapon, shotTimer, dt, NoLog)
               IN  /\ Len(r.projs) <= MaxProjectiles
                   /\ projectiles' = r.projs
                   /\ shotTimer' = r.timer
                   /\ shotLog' = r.log
          ELSE /\ shotTimer' = ClampTimer(shotTimer, currentWeapon)
               /\ shotLog' = NoLog
               /\ UNCHANGED projectiles
    /\ pc' = "spawn"
    /\ UNCHANGED <<player, nextId, asteroids, spawnTimer, spawnInterval, currentWeapon,
                   currentShape, dt, allShips, frame, presses, hitLog, contactLog, call>>

\* a spawn condition with > in place of >=
SpawnDueStrict == spawnTimer > spawnInterval /\ Len(asteroids) < MAX_AST

\* if (spawnTimer >= spawnInterval && asteroids.size() < MAX_AST) { ... }
SpawnDue == spawnTimer >= spawnInterval /\ Len(asteroids) < MAX_AST

SpawnAsteroid ==
    /\ pc = "spawn"
    /\ IF SpawnDue
       THEN /\ \E rnd \in 0..2, size \in Sizes, edge \in Edges, along \in AlongSet,
                  center \in CenterSet, speed \in SpeedSet :
                  /\ IsTarget(center)
                  /\ CanInit(size, edge, along, center, speed)
                  /\ (currentShape # "RANDOM" => rnd = 0)
                  /\ asteroids' = Append(asteroids,
                        NewAsteroid(MakeShape(currentShape, rnd), size, edge, along, center, speed))
            /\ spawnTimer' = 0
            /\ spawnInterval' \in SpawnIntervals
       ELSE UNCHANGED <<asteroids, spawnTimer, spawnInterval>>
    /\ pc' = "projectiles"
    /\ UNCHANGED <<player, nextId, projectiles, currentWeapon, currentShape, shotTimer,
                   dt, allShips, frame, presses, shotLog, hitLog, contactLog, call>>

\* a projectile update that moves every projectile and removes none
MoveAll(projs, d) == [i \in 1..Len(projs) |-> ProjectileMoved(projs[i], d)]

\* std::remove_if(projectiles, Update(dt)) + erase: every projectile moves, the
\* expired ones go
UpdateProjectiles(projs, d) ==
    SelectSeq([i \in 1..Len(projs) |-> ProjectileMoved(projs[i], d)],
              LAMBDA p : ~ProjectileExpired(p))

\* the projectile update, then allShips is filled by player->GetAllShips
MoveProjectiles ==
    /\ pc = "projectiles"
    /\ projectiles' = UpdateProjectiles(projectiles, dt)
    /\ allShips' = ShipPtrs(player)
    /\ pc' = "hits"
    /\ UNCHANGED <<player, nextId, asteroids, spawnTimer, spawnInterval, currentWeapon,
                   currentShape, shotTimer, dt, frame, presses, shotLog, hitLog, contactLog,
                   call>>

\* the projectile vs asteroid pass
ProjectileHitsPass ==
    /\ pc = "hits"
    /\ LET r == ProjectileLoop(player, allShips, projectiles, 1, asteroids, NoLog)
       IN  /\ player' = r.root
           /\ projectiles' = r.projs
           /\ asteroids' = r.asts
           /\ hitLog' = r.log
    /\ pc' = "contact"
    /\ UNCHANGED <<nextId, spawnTimer, spawnInterval, currentWeapon, currentShape,
                   shotTimer, dt, allShips, frame, presses, shotLog, contactLog, call>>

\* the ship vs asteroid pass
ShipContactPass ==
    /\ pc = "contact"
    /\ LET r == ContactLoop(player, allShips, asteroids, 1, dt, <<>>, NoLog)
       IN  /\ player' = r.root
           /\ asteroids' = r.asts
           /\ contactLog' = r.log
    /\ pc' = "orbiter"
    /\ UNCHANGED <<nextId, projectiles, spawnTimer, spawnInterval, currentWeapon,
                   currentShape, shotTimer, dt, allShips, frame, presses, shotLog, hitLog,
                   call>>

\* player->TrySpawnOrbiter(C_WIDTH, C_HEIGHT, SCORE_THRESHOLD, &sharedTex); the
\* frame ends and allShips goes out of scope
SpawnOrbiters ==
    /\ pc = "orbiter"
    /\ LET r == TrySpawnOrbiter(player, nextId, SCORE_THRESHOLD)
       IN  /\ player' = r.ship
           /\ nextId' = r.next
    /\ allShips' = <<>>
    /\ frame' = frame + 1
    /\ pc' = "update"
    /\ shotLog' = NoLog
    /\ hitLog' = NoLog
    /\ contactLog' = NoLog
    /\ UNCHANGED <<asteroids, projectiles, spawnTimer, spawnInterval, currentWeapon,
                   currentShape, shotTimer, dt, presses, call>>

-----------------------------------------------------------------------------
(* The states a run starts from: the state Run has built when it enters    *)
(* the loop, and states of a game in progress at the top of the loop.  A   *)
(* game in progress is put together with the operations of the program: a  *)
(* ship tree grown by AddScore and TrySpawnOrbiter and turned by           *)
(* UpdateOrbiters, asteroids made by Asteroid::init and advanced by        *)
(* Asteroid::Update over the frames since they were spawned.               *)

Centre == <<C_WIDTH \div 2, C_HEIGHT \div 2>>

\* a stall of 3 s, the frame time of the frame an approaching asteroid was spawned in
Stall == 594

\* an asteroid spawned in the middle of an edge, aimed at the centre, d ticks ago
Approaching(shape, size, edge, along, speed, d) ==
    AsteroidMoved(NewAsteroid(shape, size, edge, along, <<along, C_HEIGHT \div 2>>, speed), d)

\* the root after it was hit down to hp and credited score asteroids
Veteran(hp, score) == [NewShip(1, RootScale) EXCEPT !.hp = hp, !.score = score]

\* a root that has earned its orbiter; the orbiter has turned for angle ticks,
\* was hit down to hp and credited score asteroids
WithOrbiter(root, angle, hp, score) ==
    LET t == UpdateOrbiters(TrySpawnOrbiter(root, 2, SCORE_THRESHOLD).ship, angle, {})
    IN  [t EXCEPT !.orbiters[1].hp = hp, !.orbiters[1].score = score]

\* the tree above after the orbiter earned an orbiter of its own in the last frame
WithGrandchild(root, angle, hp, score) ==
    TrySpawnOrbiter(WithOrbiter(root, angle, hp, score), 3, SCORE_THRESHOLD).ship

\* the angle, short of a full turn, that leaves an orbiter right of its parent
\* in the next frame
NearFullTurn == 1232

\* the timer a game is left with after firing bullets and going back to the laser
BulletRest == 4

\* the column (pixels) an orbiter right of the root at the centre fires along
OrbiterColumn == C_WIDTH \div 2 + (TextureWidth * RootScale) \div 2000 + OrbitGap

\* the age at which an asteroid that came in from the top is about to leave at
\* the bottom: the long frame takes it out, the short one does not
Crossing == 1276

Trees ==
    << [player |-> Veteran(ShipHP, 0), nextId |-> 2, shotTimer |-> 0],
       [player |-> Veteran(20, 2), nextId |-> 2, shotTimer |-> BulletRest],
       [player |-> WithOrbiter(Veteran(ShipHP, 3), NearFullTurn, 5, 2), nextId |-> 3,
        shotTimer |-> 0],
       [player |-> WithOrbiter(Veteran(20, 4), NearFullTurn, ShipHP, 0), nextId |-> 3,
        shotTimer |-> BulletRest],
       [player |-> WithGrandchild(Veteran(ShipHP, 3), NearFullTurn, 5, 3), nextId |-> 4,
        shotTimer |-> 0] >>

\* a laser shot fired from a root that stood 250 px above the centre, now 40 px
\* below the top edge: a short frame takes it onto the edge, a long one out
LastShot ==
    LET root == [NewShip(1, RootScale) EXCEPT !.pos = <<Px(C_WIDTH \div 2), Px(C_HEIGHT \div 2 - ShipSpeed)>>]
    IN  ProjectileMoved(MakeProjectile("LASER", Muzzle(root), GetSpacing("LASER") * GetFireRate("LASER")),
                        12 * Interval("LASER"))

\* the asteroid lists of the games in progress, each with the spawn timer it
\* implies and the interval drawn at the last spawn, and the projectiles in flight
Skies ==
    << [asteroids |-> <<>>, spawnTimer |-> 0, spawnInterval |-> C_SPAWN_MAX,
        projectiles |-> <<LastShot>>],
       [asteroids |-> <<>>, spawnTimer |-> 66, spawnInterval |-> C_SPAWN_MIN,
        projectiles |-> <<>>],
       [asteroids |-> <<Approaching("TRIANGLE", 1, 0, C_WIDTH \div 2, SPEED_MAX, Stall),
                        Approaching("TRIANGLE", 1, 0, OrbiterColumn, SPEED_MAX, Stall)>>,
        spawnTimer |-> 0, spawnInterval |-> C_SPAWN_MAX,
        projectiles |-> <<>>],
       [asteroids |-> <<Approaching("TRIANGLE", 4, 0, C_WIDTH \div 2, SPEED_MIN, 2 * Stall),
                        Approaching("SQUARE", 4, 0, C_WIDTH \div 2, SPEED_MAX, Stall)>>,
        spawnTimer |-> 0, spawnInterval |-> C_SPAWN_MIN,
        projectiles |-> <<>>],
       [asteroids |-> <<Approaching("TRIANGLE", 1, 1, C_HEIGHT \div 2, SPEED_MAX, Stall),
                        Approaching("SQUARE", 1, 0, C_WIDTH \div 2, SPEED_MAX, Crossing)>>,
        spawnTimer |-> 0, spawnInterval |-> C_SPAWN_MAX,
        projectiles |-> <<>>],
       [asteroids |-> <<Approaching("TRIANGLE", 4, 1, C_HEIGHT \div 2, SPEED_MAX, Stall + 44),
                        Approaching("TRIANGLE", 1, 0, C_WIDTH \div 2, SPEED_MAX, Stall - 44)>>,
        spawnTimer |-> 0, spawnInterval |-> C_SPAWN_MAX,
        projectiles |-> <<>>] >>

\* the games in progress a run starts from: a ship tree and an asteroid list,
\* by their places in Trees and Skies
Games ==
    { <<1, 1>>, <<1, 2>>, <<1, 4>>,
      <<2, 3>>, <<2, 4>>, <<2, 6>>,
      <<3, 2>>, <<3, 3>>, <<3, 5>>,
      <<4, 4>>, <<4, 5>>, <<4, 6>>,
      <<5, 1>>, <<5, 3>>, <<5, 5>> }

Init ==
    /\ \E g \in Games :
          /\ player = Trees[g[1]].player
          /\ nextId = Trees[g[1]].nextId
          /\ shotTimer = Trees[g[1]].shotTimer
          /\ asteroids = Skies[g[2]].asteroids
          /\ spawnTimer = Skies[g[2]].spawnTimer
          /\ spawnInterval = Skies[g[2]].spawnInterval
          /\ projectiles = Skies[g[2]].projectiles
    /\ currentWeapon = "LASER"
    /\ currentShape = "TRIANGLE"
    /\ dt = 0
    /\ allShips = <<>>
    /\ pc = "update"
    /\ frame = 0
    /\ presses = 0
    /\ shotLog = NoLog
    /\ hitLog = NoLog
    /\ contactLog = NoLog
    /\ call = NoCall

Next ==
    \/ Update
    \/ Restart
    \/ Select
    \/ Fire
    \/ SpawnAsteroid
    \/ MoveProjectiles
    \/ ProjectileHitsPass
    \/ ShipContactPass
    \/ SpawnOrbiters

Spec == Init /\ [][Next]_vars

-----------------------------------------------------------------------------
(* The public methods of Ship called one at a time, in any order, on a     *)
(* ship tree that starts as the ship the constructor builds: the calls a   *)
(* unit test of the class can make, among them TakeDamage on a ship that   *)
(* is dead already, which the frame loop never makes.                      *)

\* the arguments of TakeDamage: nothing, and GetDamage of a big triangle and of a
\* big pentagon
Damages == {0, 4 * BaseDamage("TRIANGLE"), 4 * BaseDamage("PENTAGON")}

MaxScore == 3
MaxShips == 2

InitUnit ==
    /\ player = NewShip(1, RootScale)
    /\ nextId = 2
    /\ asteroids = <<>>
    /\ projectiles = <<>>
    /\ spawnTimer = 0
    /\ spawnInterval = C_SPAWN_MAX
    /\ currentWeapon = "LASER"
    /\ currentShape = "TRIANGLE"
    /\ shotTimer = 0
    /\ dt = 0
    /\ allShips = <<>>
    /\ pc = "call"
    /\ frame = 0
    /\ presses = 0
    /\ shotLog = NoLog
    /\ hitLog = NoLog
    /\ contactLog = NoLog
    /\ call = NoCall

\* what a call leaves alone
Rest == <<asteroids, projectiles, spawnTimer, spawnInterval, currentWeapon, currentShape,
          shotTimer, dt, allShips, pc, frame, presses, shotLog, hitLog, contactLog>>

\* ship->TakeDamage(dmg)
CallTakeDamage ==
    /\ pc = "call"
    /\ \E i \in 1..Len(ShipPtrs(player)), dmg \in Damages :
          LET id == ShipPtrs(player)[i]
          IN  /\ player' = DamageShip(player, id, dmg)
              /\ call' = [op |-> "TakeDamage", uid |-> id, arg |-> dmg,
                          before |-> Deref(player, id)]
    /\ UNCHANGED <<nextId, Rest>>

\* ship->AddScore(1)
CallAddScore ==
    /\ pc = "call"
    /\ \E i \in 1..Len(ShipPtrs(player)) :
          LET id == ShipPtrs(player)[i]
          IN  /\ Deref(player, id).score < MaxScore
              /\ player' = ScoreShip(player, id, 1)
              /\ call' = [op |-> "AddScore", uid |-> id, arg |-> 1,
                          before |-> Deref(player, id)]
    /\ UNCHANGED <<nextId, Rest>>

\* root->TrySpawnOrbiter(..., SCORE_THRESHOLD, ...)
CallTrySpawnOrbiter ==
    /\ pc = "call"
    /\ LET r == TrySpawnOrbiter(player, nextId, SCORE_THRESHOLD)
       IN  /\ r.next <= MaxShips + 1
           /\ player' = r.ship
           /\ nextId' = r.next
    /\ call' = [op |-> "TrySpawnOrbiter", uid |-> player.uid, arg |-> SCORE_THRESHOLD,
                before |-> player]
    /\ UNCHANGED Rest

\* root->UpdateOrbiters(0.f): the orbiters stay where they are, the dead ones go
CallUpdateOrbiters ==
    /\ pc = "call"
    /\ player' = UpdateOrbiters(player, 0, {})
    /\ call' = [op |-> "UpdateOrbiters", uid |-> player.uid, arg |-> 0, before |-> player]
    /\ UNCHANGED <<nextId, Rest>>

NextUnit ==
    \/ CallTakeDamage
    \/ CallAddScore
    \/ CallTrySpawnOrbiter
    \/ CallUpdateOrbiters

SpecUnit == InitUnit /\ [][NextUnit]_vars

-----------------------------------------------------------------------------
(* The firing code on its own: the weapon key and the firing step of one   *)
(* frame, entered with the timer anywhere in the range a frame can leave   *)
(* it in, and Ship::ShootAll called directly on a tree some ships of which *)
(* are dead.  The firing code multiplies no speed by dt, so the frame time *)
(* is drawn from whole numbers of ticks that need not be multiples of 11.  *)

\* frame times in ticks, shorter and longer than the two firing intervals
FrameTimes == {3, 8, 10, 11, 22}

\* the ship after a hit that takes all the hit points it has left
Kill(root, id) == DamageShip(root, id, Deref(root, id).hp)

RECURSIVE KillSet(_, _)
\* the tree after every ship of ids was killed
KillSet(root, ids) ==
    IF ids = {} THEN root
    ELSE LET id == CHOOSE x \in ids : TRUE
         IN  KillSet(Kill(root, id), ids \ {id})

\* at the top of the firing step only the root can be dead (the dead orbiters
\* were pruned at the top of the frame); a direct call can meet any ship dead
InitShoot ==
    /\ \E t \in 1..Len(Trees), entry \in {"select", "call"} :
          \E dead \in SUBSET {ShipPtrs(Trees[t].player)[i] : i \in 1..Len(ShipPtrs(Trees[t].player))} :
             /\ entry = "select" => dead \subseteq {Trees[t].player.uid}
             /\ player = KillSet(Trees[t].player, dead)
             /\ nextId = Trees[t].nextId
             /\ pc = entry
    /\ currentWeapon \in {"LASER", "BULLET"}
    /\ shotTimer \in 0..Interval(currentWeapon)
    /\ dt \in FrameTimes
    /\ asteroids = <<>>
    /\ projectiles = <<>>
    /\ spawnTimer = 0
    /\ spawnInterval = C_SPAWN_MAX
    /\ currentShape = "TRIANGLE"
    /\ allShips = <<>>
    /\ frame = 0
    /\ presses = 0
    /\ shotLog = NoLog
    /\ hitLog = NoLog
    /\ contactLog = NoLog
    /\ call = NoCall

\* root->ShootAll(projectiles, currentWeapon, shotTimer, dt)
CallShootAll ==
    /\ pc = "call"
    /\ LET r == ShootAll(player, projectiles, currentWeapon, shotTimer, dt, NoLog)
       IN  /\ projectiles' = r.projs
           /\ shotTimer' = r.timer
           /\ shotLog' = r.log
    /\ call' = [op |-> "ShootAll", uid |-> player.uid, arg |-> shotTimer, before |-> player]
    /\ pc' = "called"
    /\ UNCHANGED <<player, nextId, asteroids, spawnTimer, spawnInterval, currentWeapon,
                   currentShape, dt, allShips, frame, presses, hitLog, contactLog>>

NextShoot ==
    \/ Select
    \/ Fire
    \/ CallShootAll

SpecShoot == InitShoot /\ [][NextShoot]_vars

-----------------------------------------------------------------------------
(* Asteroid::Update on its own: one asteroid that Asteroid::init put on    *)
(* the left edge and aimed level at the middle of the screen, advanced by  *)
(* the same frame time frame after frame until Update returns false, which *)
(* is when the frame loop erases it.                                       *)

\* frame times in ticks: multiples of 11, from 1/18 s to a stall of 1 s
FlightTimes == {11, 22, 66, 198}

\* the rows (pixels) the asteroid flies along
FlightRows == {C_HEIGHT \div 2 - MaxOff, C_HEIGHT \div 2, C_HEIGHT \div 2 + MaxOff}

InitFlight ==
    /\ \E size \in Sizes, row \in FlightRows, speed \in {SPEED_MIN, SPEED_MAX} :
          /\ CanInit(size, 3, row, <<C_WIDTH \div 2, row>>, speed)
          /\ asteroids = <<NewAsteroid("TRIANGLE", size, 3, row, <<C_WIDTH \div 2, row>>, speed)>>
    /\ dt \in FlightTimes
    /\ pc = "flying"
    /\ frame = 0
    /\ player = NewShip(1, RootScale)
    /\ nextId = 2
    /\ projectiles = <<>>
    /\ spawnTimer = 0
    /\ spawnInterval = C_SPAWN_MAX
    /\ currentWeapon = "LASER"
    /\ currentShape = "TRIANGLE"
    /\ shotTimer = 0
    /\ allShips = <<>>
    /\ presses = 0
    /\ shotLog = NoLog
    /\ hitLog = NoLog
    /\ contactLog = NoLog
    /\ call = NoCall

\* asteroid->Update(dt); pc keeps the result: "flying" for true, "gone" for false
Fly ==
    /\ pc = "flying"
    /\ LET a == AsteroidMoved(asteroids[1], dt)
       IN  /\ asteroids' = <<a>>
           /\ pc' = IF AsteroidActive(a) THEN "flying" ELSE "gone"
    /\ frame' = frame + 1
    /\ UNCHANGED <<player, nextId, projectiles, spawnTimer, spawnInterval, currentWeapon,
                   currentShape, shotTimer, dt, allShips, presses, shotLog, hitLog,
                   contactLog, call>>

SpecFlight == InitFlight /\ [][Fly]_vars

-----------------------------------------------------------------------------
(* Properties *)

\* id designates a ship of the tree
IsShip(root, id) == \E i \in 1..Len(GetAllShips(root)) : GetAllShips(root)[i].uid = id

RECURSIVE SumScores(_)
\* the sum of the scores of a list of ships
SumScores(l) == IF l = <<>> THEN 0 ELSE Head(l).score + SumScores(Tail(l))

\* C1: TakeDamage(dmg) with dmg >= 0 never increases the hp of the ship, and on a
\* ship that is dead already it changes neither hp nor alive, however often it
\* is called.
C1_TakeDamageNeverHeals ==
    call.op = "TakeDamage" =>
        LET s == Deref(player, call.uid)
        IN  /\ s.hp <= call.before.hp
            /\ ~call.before.alive => s.hp = call.before.hp /\ s.alive = call.before.alive

\* a call of TakeDamage with a positive damage on a ship that was dead
C1_DeadShipHit == call.op = "TakeDamage" /\ ~call.before.alive /\ call.arg > 0

\* C2: the life cycle of a ship is one-way.  Over every step, a ship object that
\* is dead stays dead; a ship that goes from alive to dead does so in a step that
\* lowers its hp from above 0 to 0 or less; and the root goes from dead to alive
\* only in the restart step, by being replaced with a new ship object.
C2_OneWayLifeCycle ==
    [][/\ \A i \in 1..Len(GetAllShips(player)) :
             LET s == GetAllShips(player)[i]
             IN  IsShip(player', s.uid) =>
                    LET t == Deref(player', s.uid)
                    IN  /\ ~s.alive => ~t.alive
                        /\ s.alive /\ ~t.alive => s.hp > 0 /\ t.hp <= 0
       /\ ~player.alive /\ player'.alive => pc = "restart" /\ ~IsShip(player, player'.uid)
      ]_vars

\* a root that died in an earlier frame and has been updated since
C2_DeadRootNextFrame == pc = "restart" /\ frame >= 1 /\ ~player.alive

\* C3: in the projectile pass every hit removes one projectile and one asteroid:
\* the asteroid is the first in list order, of the asteroids left at that moment,
\* within projectile radius + asteroid radius of the projectile; the hits remove
\* nothing else, so both lists shrink by the number of hits; and afterwards no
\* projectile left is in range of an asteroid left.
C3_ProjectilePass ==
    [][pc = "hits" =>
          LET log == hitLog'
              n == Len(log)
              inRange(p, a) == Within(p.pos, a.pos, ProjectileRadius(p) + AsteroidRadius(a))
          IN  /\ Len(projectiles') = Len(projectiles) - n
              /\ Len(asteroids') = Len(asteroids) - n
              /\ \A k \in 1..n :
                    /\ log[k].before = IF k = 1 THEN asteroids
                                       ELSE RemoveAt(log[k - 1].before, log[k - 1].at)
                    /\ log[k].at \in 1..Len(log[k].before)
                    /\ log[k].ast = log[k].before[log[k].at]
                    /\ inRange(log[k].proj, log[k].ast)
                    /\ \A m \in 1..(log[k].at - 1) : ~inRange(log[k].proj, log[k].before[m])
                    /\ \E i \in 1..Len(projectiles) : projectiles[i] = log[k].proj
              /\ asteroids' = IF n = 0 THEN asteroids ELSE RemoveAt(log[n].before, log[n].at)
              /\ \A i \in 1..Len(projectiles) :
                    (\A j \in 1..Len(asteroids) : ~inRange(projectiles[i], asteroids[j]))
                       => \E m \in 1..Len(projectiles') : projectiles'[m] = projectiles[i]
              /\ \A i \in 1..Len(projectiles'), j \in 1..Len(asteroids') :
                    ~inRange(projectiles'[i], asteroids'[j])
      ]_vars

\* a projectile destroyed the first of two asteroids it was in range of
C3_TwoInRange ==
    \E k \in 1..Len(hitLog) :
        \E m \in (hitLog[k].at + 1)..Len(hitLog[k].before) :
            ProjectileHits(hitLog[k].proj, hitLog[k].before[m])

\* C4: for every asteroid a projectile destroys, the ship credited is a ship of
\* the flattened list (the root, dead or alive, and all its descendants) that no
\* ship of the list is closer to the projectile than; every ship's score grows
\* by the number of hits credited to it, so the sum of the scores grows by the
\* number of asteroids destroyed.
C4_ScoreToClosest ==
    [][pc = "hits" =>
          LET log == hitLog'
              ships == GetAllShips(player)
              dist2(a, b) == Sq(a[1] - b[1]) + Sq(a[2] - b[2])
          IN  /\ allShips = [i \in 1..Len(ships) |-> ships[i].uid]
              /\ \A k \in 1..Len(log) :
                    /\ IsShip(player, log[k].credited)
                    /\ \A i \in 1..Len(ships) :
                          dist2(Deref(player, log[k].credited).pos, log[k].proj.pos)
                             <= dist2(ships[i].pos, log[k].proj.pos)
              /\ \A i \in 1..Len(ships) :
                    Deref(player', ships[i].uid).score =
                       ships[i].score
                       + Cardinality({k \in 1..Len(log) : log[k].credited = ships[i].uid})
              /\ SumScores(GetAllShips(player')) =
                    SumScores(ships) + (Len(asteroids) - Len(asteroids'))
      ]_vars

\* a hit was credited to the dead root
C4_DeadRootCredited ==
    /\ pc = "contact"
    /\ \E k \in 1..Len(hitLog) : hitLog[k].credited = player.uid /\ ~player.alive

\* C5: in the ship pass, for each asteroid in turn: if a ship that is alive at
\* that moment is within ship radius + asteroid radius of it, the first such
\* ship in the flattened list takes the asteroid's damage, no other hp changes,
\* and the asteroid is removed; otherwise no hp changes and the asteroid is
\* removed exactly if its off-screen check says it expired.  Dead ships in range
\* count for nothing.
C5_ShipPass ==
    [][pc = "contact" =>
          LET log == contactLog'
              n == Len(log)
              rootAfter(k) == IF k = n THEN player' ELSE log[k + 1].root
              keep == SelectSeq([k \in 1..n |-> k], LAMBDA k : ~log[k].removed)
          IN  /\ n = Len(asteroids)
              /\ n = 0 => player' = player
              /\ n > 0 => log[1].root = player
              /\ \A k \in 1..n :
                    LET e == log[k]
                        ships == GetAllShips(e.root)
                        after == GetAllShips(rootAfter(k))
                        hit(i) == /\ ships[i].alive
                                  /\ Within(ships[i].pos, e.ast.pos,
                                            GetRadius(ships[i]) + AsteroidRadius(e.ast))
                    IN  /\ e.ast = asteroids[k]
                        /\ Len(after) = Len(ships)
                        /\ IF \E i \in 1..Len(ships) : hit(i)
                           THEN LET f == CHOOSE i \in 1..Len(ships) :
                                            hit(i) /\ \A m \in 1..(i - 1) : ~hit(m)
                                IN  /\ e.victim = ships[f].uid
                                    /\ e.removed
                                    /\ \A i \in 1..Len(ships) :
                                          after[i].hp = ships[i].hp
                                             - (IF i = f THEN AsteroidDamage(e.ast) ELSE 0)
                           ELSE /\ e.victim = 0
                                /\ e.removed = ~AsteroidActive(AsteroidMoved(e.ast, dt))
                                /\ \A i \in 1..Len(ships) : after[i].hp = ships[i].hp
              /\ asteroids' = [m \in 1..Len(keep) |-> AsteroidMoved(log[keep[m]].ast, dt)]
      ]_vars

\* an asteroid in range of a dead ship only went through the pass and was kept
C5_DeadOnlyOverlap ==
    /\ pc = "orbiter"
    /\ \E k \in 1..Len(contactLog) :
          /\ contactLog[k].victim = 0
          /\ ~contactLog[k].removed
          /\ \E i \in 1..Len(GetAllShips(contactLog[k].root)) :
                LET s == GetAllShips(contactLog[k].root)[i]
                IN  ~s.alive /\ ShipHits(s, contactLog[k].ast)

\* C6: every ship of the tree, the root and every orbiter, has at most one
\* direct orbiter, whatever the number of TrySpawnOrbiter calls on it.
C6_OneOrbiterSlot ==
    \A i \in 1..Len(GetAllShips(player)) : Len(GetAllShips(player)[i].orbiters) <= 1

\* TrySpawnOrbiter has been called on a root that has the score and an orbiter
C6_CalledWithOrbiter ==
    /\ pc = "update"
    /\ frame = MaxFrames
    /\ player.score >= 3
    /\ Len(player.orbiters) = 1
    /\ player.orbiters[1].orbitAngle > 0

\* C7: TrySpawnOrbiter gives every ship of the tree with score >= 3 and no
\* orbiter exactly one orbiter: a new ship object with that ship as parent,
\* orbitRadius = the ship's radius + 60, orbitAngle = 0, alive, hp 100, score 0;
\* a ship with score < 3 gets none.
C7_SpawnOrbiter ==
    [][pc = "orbiter" =>
          \A i \in 1..Len(GetAllShips(player)) :
              LET s == GetAllShips(player)[i]
                  t == Deref(player', s.uid)
              IN  /\ IsShip(player', s.uid)
                  /\ s.score >= 3 /\ s.orbiters = <<>> =>
                        /\ Len(t.orbiters) = 1
                        /\ ~IsShip(player, t.orbiters[1].uid)
                        /\ t.orbiters[1].parent = s.uid
                        /\ t.orbiters[1].orbitRadius = GetRadius(s) + Px(60)
                        /\ t.orbiters[1].orbitAngle = 0
                        /\ t.orbiters[1].alive
                        /\ t.orbiters[1].hp = 100
                        /\ t.orbiters[1].score = 0
                        /\ t.orbiters[1].orbiters = <<>>
                  /\ s.score < 3 =>
                        /\ Len(t.orbiters) = Len(s.orbiters)
                        /\ \A m \in 1..Len(s.orbiters) : t.orbiters[m].uid = s.orbiters[m].uid
      ]_vars

\* the root got its orbiter in the frame that just ended
C7_RootGotOrbiter ==
    /\ pc = "update"
    /\ frame >= 1
    /\ Len(player.orbiters) = 1
    /\ player.orbiters[1].orbitAngle = 0
    /\ player.orbiters[1].uid = nextId - 1

C10_RestartResetsAll ==
    [][pc = "restart" /\ ~player.alive /\ presses' = presses + 1 =>
          /\ ~IsShip(player, player'.uid)
          /\ player'.alive
          /\ player'.hp = 100
          /\ player'.score = 0
          /\ player'.orbiters = <<>>
          /\ asteroids' = <<>>
          /\ projectiles' = <<>>
          /\ spawnTimer' = 0
          /\ shotTimer' = 0
      ]_vars

\* a restart that found time left in shotTimer
C10_RestartWithShotTimer ==
    /\ pc = "select"
    /\ presses = 1
    /\ player.alive
    /\ player.uid = nextId - 1
    /\ player.uid # 1
    /\ asteroids = <<>>
    /\ shotTimer > 0

-----------------------------------------------------------------------------
\* C11: dead ships do not fire.  After the firing step of a frame and after a
\* direct call of ShootAll, every projectile there is sits at the muzzle of a
\* ship of the tree that is alive, every ship that emitted something is alive,
\* and with the root dead nothing was emitted at all, fire key held or not.
C11_DeadShipsDoNotFire ==
    pc \in {"spawn", "called"} =>
        LET l == GetAllShips(player)
        IN  /\ \A k \in 1..Len(projectiles) :
                  \E i \in 1..Len(l) :
                     /\ l[i].alive
                     /\ projectiles[k].pos = <<l[i].pos[1], l[i].pos[2] - GetRadius(l[i])>>
            /\ \A k \in 1..Len(shotLog) :
                  shotLog[k].n > 0 => \E i \in 1..Len(l) : l[i].uid = shotLog[k].uid /\ l[i].alive
            /\ ~player.alive => projectiles = <<>>

\* ShootAll ran on a tree with a dead orbiter under a root that fired
C11_DeadOrbiterAlongside ==
    /\ pc = "called"
    /\ player.alive
    /\ projectiles # <<>>
    /\ \E i \in 1..Len(GetAllShips(player)) : ~GetAllShips(player)[i].alive

-----------------------------------------------------------------------------
\* what is fixed when an asteroid is created
Tier(a) == [size |-> a.size, shape |-> a.shape, baseDamage |-> a.baseDamage]

\* the tiers of a list of asteroids, in order
Tiers(asts) == [k \in 1..Len(asts) |-> Tier(asts[k])]

RECURSIVE IsSubSeq(_, _)
\* s is t with some elements left out
IsSubSeq(s, t) ==
    IF s = <<>> THEN TRUE
    ELSE IF t = <<>> THEN FALSE
    ELSE IF Head(s) = Head(t) THEN IsSubSeq(Tail(s), Tail(t))
    ELSE IsSubSeq(s, Tail(t))

\* the size tier, radius and damage an asteroid has by its shape and size
TierAsStated(a) ==
    /\ a.size \in {1, 2, 4}
    /\ a.shape \in {"TRIANGLE", "SQUARE", "PENTAGON"}
    /\ AsteroidRadius(a) = 16 * a.size * SubPx
    /\ AsteroidDamage(a) = a.size * (CASE a.shape = "TRIANGLE" -> 5
                                       [] a.shape = "SQUARE" -> 10
                                       [] a.shape = "PENTAGON" -> 15)

\* C12: every asteroid has a size tier in {1, 2, 4}, radius 16 x tier and damage
\* base x tier with base 5 / 10 / 15 for triangle / square / pentagon, whichever
\* shape mode made it, and keeps tier, shape and base damage for as long as it
\* is in the list: a step only removes asteroids or appends one new asteroid.
C12_SizeTier ==
    [][ /\ \A k \in 1..Len(asteroids) : TierAsStated(asteroids[k])
        /\ \A k \in 1..Len(asteroids') : TierAsStated(asteroids'[k])
        /\ \/ IsSubSeq(Tiers(asteroids'), Tiers(asteroids))
           \/ /\ pc = "spawn"
              /\ Len(asteroids') = Len(asteroids) + 1
              /\ Tiers(SubSeq(asteroids', 1, Len(asteroids))) = Tiers(asteroids) ]_vars

\* a big pentagon made in random mode is in the list
C12_RandomBigPentagon ==
    /\ currentShape = "RANDOM"
    /\ \E k \in 1..Len(asteroids) : asteroids[k].shape = "PENTAGON" /\ asteroids[k].size = 4

-----------------------------------------------------------------------------
\* the distance (length units) the asteroid of a flight has covered after the
\* frames flown so far: N x dt x vx
Flown == frame * Scale(asteroids[1].vel[1], dt)

\* C13 as stated: an asteroid that started on the left edge with a level velocity
\* to the right has been reported inactive once N x dt x vx > screenWidth + radius.
C13_AsStated ==
    (pc \in {"flying", "gone"} /\ Flown > Px(C_WIDTH) + AsteroidRadius(asteroids[1]))
        => pc = "gone"

\* C13, amended: the asteroid starts at x = -radius with vy = 0, is at
\* x = -radius + N x dt x vx after N frames, and Update returns false in the
\* first frame N with N x dt x vx > screenWidth + 2 x radius and true in every
\* frame before it.
C13_GoneBeyondMargin ==
    pc \in {"flying", "gone"} =>
        /\ asteroids[1].vel[2] = 0 /\ asteroids[1].vel[1] > 0
        /\ asteroids[1].pos[1] = Flown - 16 * asteroids[1].size * SubPx
        /\ pc = "gone" <=> Flown > Px(C_WIDTH) + 2 * 16 * asteroids[1].size * SubPx
        /\ pc = "gone" =>
              Flown - Scale(asteroids[1].vel[1], dt) <= Px(C_WIDTH) + 2 * 16 * asteroids[1].size * SubPx

\* a big asteroid has flown farther than screenWidth + radius and is still active
C13_PastTheEdgeStillActive ==
    /\ pc = "flying"
    /\ asteroids[1].size = 4
    /\ Flown > Px(C_WIDTH) + AsteroidRadius(asteroids[1])

-----------------------------------------------------------------------------
\* x is an element of the sequence seq
InList(x, seq) == \E k \in 1..Len(seq) : seq[k] = x

\* the projectile p after a movement of d ticks
Shifted(p, d) == [p EXCEPT !.pos = Advance(p.pos, p.vel, d)]

\* some alive ship of the tree root overlaps a body of radius r (length units) at pos
Overlapped(root, pos, r) ==
    \E i \in 1..Len(GetAllShips(root)) :
       LET s == GetAllShips(root)[i]
       IN  s.alive /\ Within(s.pos, pos, GetRadius(s) + r)

\* C14 as stated: within a frame asteroids and projectiles are both advanced by dt
\* before any collision test, so that once the projectile pass has begun nothing
\* moves any more: what the two passes leave in the lists is what they found.
C14_AsStated ==
    [][ /\ pc = "projectiles" =>
              \A k \in 1..Len(projectiles') :
                 \E j \in 1..Len(projectiles) : projectiles'[k] = Shifted(projectiles[j], dt)
        /\ pc \in {"hits", "contact"} =>
              /\ \A k \in 1..Len(projectiles') : InList(projectiles'[k], projectiles)
              /\ \A k \in 1..Len(asteroids') : InList(asteroids'[k], asteroids) ]_vars

\* C14, amended: only the projectiles are advanced before the collision tests.
\* No step before the ship pass moves an asteroid: the projectile test and the
\* ship test of a frame see every asteroid where the frame before left it (or
\* where it was spawned).  The ship pass advances by dt the asteroids that hit
\* no ship, after testing them, and removes the ones that leave the screen; an
\* asteroid that hits a ship is removed without being advanced.
C14_ProjectilesBeforeAsteroidsAfter ==
    [][ /\ pc \in {"update", "select", "fire", "projectiles", "orbiter"} => asteroids' = asteroids
        /\ pc = "spawn" => SubSeq(asteroids', 1, Len(asteroids)) = asteroids
        /\ pc = "projectiles" =>
              \A k \in 1..Len(projectiles') :
                 \E j \in 1..Len(projectiles) : projectiles'[k] = Shifted(projectiles[j], dt)
        /\ pc = "hits" =>
              /\ \A k \in 1..Len(projectiles') : InList(projectiles'[k], projectiles)
              /\ \A k \in 1..Len(asteroids') : InList(asteroids'[k], asteroids)
              /\ \A k \in 1..Len(hitLog') :
                    /\ InList(hitLog'[k].proj, projectiles)
                    /\ InList(hitLog'[k].ast, asteroids)
        /\ pc = "contact" =>
              /\ projectiles' = projectiles
              /\ Len(contactLog') = Len(asteroids)
              /\ \A k \in 1..Len(asteroids) :
                    LET a == asteroids[k]
                        e == contactLog'[k]
                        m == [a EXCEPT !.pos = Advance(a.pos, a.vel, dt)]
                    IN  /\ e.victim # 0 <=> Overlapped(e.root, a.pos, 16 * a.size * SubPx)
                        /\ e.victim # 0 => e.removed /\ ~InList(m, asteroids')
                        /\ ~e.removed => InList(m, asteroids')
              /\ Len(asteroids') = Cardinality({k \in 1..Len(asteroids) : ~contactLog'[k].removed})
      ]_vars

\* the ship pass has tested an asteroid, found no ship and advanced it, and has
\* removed another that hit a ship
C14_TestedThenAdvanced ==
    /\ pc = "orbiter"
    /\ dt > 0
    /\ \E k \in 1..Len(contactLog) : ~contactLog[k].removed
    /\ \E k \in 1..Len(contactLog) : contactLog[k].victim # 0

-----------------------------------------------------------------------------
\* the position pos (length units) is in the closed screen rectangle
OnScreen(pos) ==
    /\ 0 <= pos[1] /\ pos[1] <= C_WIDTH * SubPx
    /\ 0 <= pos[2] /\ pos[2] <= C_HEIGHT * SubPx

RECURSIVE StillOnScreen(_, _)
\* the projectiles of projs advanced by d ticks, without those that left the
\* screen rectangle, in order
StillOnScreen(projs, d) ==
    IF projs = <<>> THEN <<>>
    ELSE LET p == Shifted(Head(projs), d)
         IN  (IF OnScreen(p.pos) THEN <<p>> ELSE <<>>) \o StillOnScreen(Tail(projs), d)

\* C15: the projectile update keeps exactly the projectiles whose advanced
\* position is inside [0, screenWidth] x [0, screenHeight], edges included and
\* with no margin for the radius, the ones fired earlier in the same frame among
\* them; from that step to the end of the frame every projectile in the list is
\* inside the rectangle.
C15_ProjectilesOnScreen ==
    [][ /\ pc = "projectiles" => projectiles' = StillOnScreen(projectiles, dt)
        /\ pc' \in {"hits", "contact", "orbiter", "update"} =>
              \A k \in 1..Len(projectiles') : OnScreen(projectiles'[k].pos) ]_vars

\* in the first frame of the game with a shot in flight, a long one, the update
\* has taken that shot out and has kept the ones fired in this frame
C15_OneOutOneFresh ==
    /\ pc = "hits"
    /\ shotLog # NoLog
    /\ projectiles # <<>>
    /\ ~InList(Shifted(LastShot, dt), projectiles)
    /\ frame = 0
    /\ asteroids = <<>>
    /\ spawnTimer = dt
    /\ spawnInterval = C_SPAWN_MAX
    /\ dt = 22

-----------------------------------------------------------------------------
RECURSIVE SumShots(_)
\* the projectiles emitted by the activations of a ShootAll log
SumShots(log) == IF log = <<>> THEN 0 ELSE Head(log).n + SumShots(Tail(log))

\* C16 as stated: in a frame in which ShootAll runs every ship of the tree emits
\* as many projectiles as the root, and so no orbiter fires when the root does not.
C16_AsStated ==
    (pc = "spawn" /\ shotLog # NoLog) =>
        \A k \in 1..Len(shotLog) : shotLog[k].n = shotLog[1].n

\* C16, amended: the ships share one timer, but every ship adds dt to it again.
\* In a frame in which ShootAll runs on a tree of m ships with the timer at t,
\* each ship finds the remainder the ship before it (in pre-order) left, the
\* orbiters emit floor(dt / interval) or one more each, not necessarily as many as
\* the root or as each other, the call emits floor((t + m x dt) / interval)
\* projectiles in all and leaves the timer at the remainder of that division.
C16_OneTimerManyAdditions ==
    (pc = "spawn" /\ shotLog # NoLog) =>
        LET I == Interval(currentWeapon)
            m == Len(shotLog)
            t == shotLog[1].before
        IN  /\ m = Len(GetAllShips(player))
            /\ \A k \in 1..(m - 1) : shotLog[k + 1].before = shotLog[k].after
            /\ \A k \in 2..m : shotLog[k].n \in {dt \div I, dt \div I + 1}
            /\ SumShots(shotLog) = (t + m * dt) \div I
            /\ Len(projectiles) = (t + m * dt) \div I
            /\ shotTimer = (t + m * dt) % I

\* an orbiter fired in a frame in which the root, called first, did not
C16_OrbiterFiresAlone ==
    /\ pc = "spawn"
    /\ Len(shotLog) >= 2
    /\ shotLog[1].n = 0
    /\ shotLog[2].n > 0

-----------------------------------------------------------------------------
\* the uids of the ships of a tree
Uids(root) == {GetAllShips(root)[i].uid : i \in 1..Len(GetAllShips(root))}

\* the orbiters of the ships of a tree: every ship of it but the root
Orbiters(root) ==
    LET l == GetAllShips(root)
    IN  UNION {{l[i].orbiters[j] : j \in 1..Len(l[i].orbiters)} : i \in 1..Len(l)}

\* the uids of the ships of a tree that are a dead orbiter or below one
UnderDeadOrbiter(root) == UNION {Uids(o) : o \in {x \in Orbiters(root) : ~x.alive}}

-----------------------------------------------------------------------------
\* C18: with the root alive the restart step changes neither the root, the
\* orbiter tree, the asteroid list, the projectile list, the spawn timer nor the
\* spawn interval, restart key pressed or not; and the root object is replaced in
\* no step other than a restart step taken with the root dead and the key
\* pressed: until then a dead root stays the root, dead.
C18_RestartOnlyWhenDead ==
    [][ /\ (pc = "restart" /\ player.alive) =>
              UNCHANGED <<player, asteroids, projectiles, spawnTimer, spawnInterval>>
        /\ player'.uid # player.uid =>
              pc = "restart" /\ ~player.alive /\ presses' = presses + 1
        /\ (~player.alive /\ player'.uid = player.uid) => ~player'.alive
      ]_vars

\* the restart key was pressed in the restart step of the first frame, in which
\* the root is alive
C18_PressedWhileAlive ==
    /\ pc = "select"
    /\ frame = 0
    /\ presses = 1
    /\ player.alive

-----------------------------------------------------------------------------
\* C19: in every state of the game every ship of the tree is alive exactly if
\* its hit points are above 0, and has at most the 100 hit points it was built
\* with.
C19_AliveIffHitPoints ==
    \A i \in 1..Len(GetAllShips(player)) :
       LET s == GetAllShips(player)[i]
       IN  /\ s.alive <=> s.hp > 0
           /\ s.hp <= 100

\* a ship was brought down to 0 hit points exactly, another is alive below 100
C19_DownToZero ==
    /\ \E i \in 1..Len(GetAllShips(player)) :
          ~GetAllShips(player)[i].alive /\ GetAllShips(player)[i].hp = 0
    /\ \E i \in 1..Len(GetAllShips(player)) :
          GetAllShips(player)[i].alive /\ GetAllShips(player)[i].hp < 100

-----------------------------------------------------------------------------
\* the timer is in the range of the current weapon, below the interval if
\* ShootAll ran in the firing step
TimerInRange ==
    /\ 0 <= shotTimer
    /\ shotTimer <= TicksPerSec \div GetFireRate(currentWeapon)
    /\ shotLog # NoLog => shotTimer < TicksPerSec \div GetFireRate(currentWeapon)

\* C20 as stated: a frame that starts with the timer in the range of the weapon
\* then current ends, whatever keys are pressed and whether the root is alive,
\* with 0 <= shotTimer <= 1 / fireRate(currentWeapon), strictly below after
\* ShootAll ran, and the root never emits more than the shots owed for dt plus one.
C20_AsStated ==
    pc = "spawn" =>
        /\ TimerInRange
        /\ shotLog # NoLog =>
              shotLog[1].n <= dt \div (TicksPerSec \div GetFireRate(currentWeapon)) + 1

\* C20, amended: the frame ends with 0 <= shotTimer <= 1 / fireRate(currentWeapon),
\* strictly below after ShootAll ran.  A ship emits at most the shots owed for dt
\* plus one if the timer it finds is within the interval of the weapon it fires,
\* which is so for every orbiter and for the root unless the weapon was switched
\* in this frame to the one with the shorter interval; after such a switch the
\* timer can be above the new interval and the root emits up to the shots owed
\* plus two.
C20_TimerBounded ==
    pc = "spawn" =>
        LET I == TicksPerSec \div GetFireRate(currentWeapon)
        IN  /\ TimerInRange
            /\ \A k \in 1..Len(shotLog) :
                  /\ shotLog[k].n <= dt \div I + 2
                  /\ shotLog[k].before <= I => shotLog[k].n <= dt \div I + 1
                  /\ k > 1 => shotLog[k].before < I
            /\ shotLog # NoLog /\ shotLog[1].before > I =>
                  currentWeapon = "BULLET" /\ shotLog[1].before <= TicksPerSec \div GetFireRate("LASER")

\* the root fired two shots more than dt owes, right after the switch to bullets
C20_BurstAfterSwitch ==
    /\ pc = "spawn"
    /\ shotLog # NoLog
    /\ currentWeapon = "BULLET"
    /\ shotLog[1].n = dt \div (TicksPerSec \div GetFireRate("BULLET")) + 2

-----------------------------------------------------------------------------
\* every ship of the tree has an orbiter exactly if its score is at least 3
ChildIffScore(root) ==
    \A i \in 1..Len(GetAllShips(root)) :
       GetAllShips(root)[i].orbiters # <<>> <=> GetAllShips(root)[i].score >= 3

\* C21: at the end of every frame every ship of the tree, alive or dead, root or
\* orbiter, has an orbiter exactly if its score is at least 3; in no state of a
\* frame does a ship with a score below 3 have an orbiter; and no step lowers the
\* score of a ship.  A ship with the score whose dead orbiter was pruned at the
\* top of a frame therefore has an orbiter again at the end of that frame.
C21_ChildIffThreshold ==
    [][ /\ pc = "update" => ChildIffScore(player)
        /\ pc = "orbiter" => ChildIffScore(player')
        /\ \A i \in 1..Len(GetAllShips(player')) :
              GetAllShips(player')[i].orbiters # <<>> => GetAllShips(player')[i].score >= 3
        /\ \A i \in 1..Len(GetAllShips(player)) :
              \A j \in 1..Len(GetAllShips(player')) :
                 GetAllShips(player)[i].uid = GetAllShips(player')[j].uid =>
                    GetAllShips(player')[j].score >= GetAllShips(player)[i].score
      ]_vars

\* at the end of the second frame the root has a new orbiter in place of the one
\* that died in the first frame and was pruned at the top of the second
C21_OrbiterRegained ==
    /\ pc = "update"
    /\ frame = 2
    /\ player.uid = 1
    /\ Len(player.orbiters) = 1
    /\ player.orbiters[1].uid > 2
    /\ player.orbiters[1].orbitAngle = 0

=============================================================================
